---- MODULE Spec2Model ----
(***************************************************************************)
(* py-api (app/main.py): a FastAPI application with three GET routes and   *)
(* one "http" middleware that counts every request in two Prometheus       *)
(* counters labelled (path, method, status).                               *)
(*                                                                         *)
(* All coroutines of main.py are "async def" and run on one event loop, so *)
(* a coroutine is atomic between two awaits.  The only await of the        *)
(* middleware is "await call_next(request)"; a request is therefore        *)
(* modelled in three steps: it is received (the middleware starts and      *)
(* awaits call_next), call_next produces its outcome (the router's         *)
(* response, or an exception raised below the middleware), and the         *)
(* middleware resumes, counts and hands the outcome to its caller.         *)
(***************************************************************************)
EXTENDS Integers, Sequences, FiniteSets, TLC

\* Bounds of the model.
MaxRequests == 3        \* requests received in one behaviour
MaxInFlight == 2        \* requests that can be between receive and return at once

Slots == 1..MaxInFlight

VARIABLES
    REQUEST_COUNT,      \* Counter http_requests_total: label tuple -> value
    ERROR_COUNT,        \* Counter http_errors_total:   label tuple -> value
    pc,                 \* per slot: "idle", "call_next", "resume"
    request,            \* per slot: the request being handled
    result,             \* per slot: what call_next produced
    returned,           \* the exchange the middleware completed last: the request,
                        \* what call_next produced, what the middleware gave its caller
    history,            \* bag of completed exchanges (request line, delegate outcome)
    received            \* number of requests received so far

vars == <<REQUEST_COUNT, ERROR_COUNT, pc, request, result, returned, history, received>>

----------------------------------------------------------------------------
\* Requests

Paths == {"/healthz", "/work", "/metrics", "/nope"}
Methods == {"GET", "POST"}
\* Raw value of the query parameter "fail"; "absent" when the query has none.
FailParams == {"absent", "true", "false", "abc"}

\* The requests the model sends.  A query string is only sent to GET /work,
\* the one endpoint that declares a parameter; the one request with another
\* method than GET is POST /work.
Requests ==
    { r \in [path : Paths, method : Methods, fail : FailParams] :
        /\ r.fail # "absent" => (r.path = "/work" /\ r.method = "GET")
        /\ r.method = "POST" => r.path = "/work" }

NoRequest == [path |-> "", method |-> "", fail |-> "absent"]

\* Exceptions call_next can let escape.  CancelledError derives from
\* BaseException, not from Exception.
Exception == {"RuntimeError"}
BaseException == Exception \cup {"CancelledError"}

----------------------------------------------------------------------------
\* Responses and outcomes

NoContent == [none |-> TRUE]

Response(status_code, content) ==
    [kind |-> "response", status_code |-> status_code, content |-> content, exc |-> ""]

Raised(exc) ==
    [kind |-> "raise", status_code |-> 0, content |-> NoContent, exc |-> exc]

Nothing == [kind |-> "none", status_code |-> 0, content |-> NoContent, exc |-> ""]

----------------------------------------------------------------------------
\* str(int) and str.startswith, on strings as sequences of characters

Digits == <<"0", "1", "2", "3", "4", "5", "6", "7", "8", "9">>

RECURSIVE str(_)
str(n) == IF n < 10 THEN <<Digits[n + 1]>>
          ELSE Append(str(n \div 10), Digits[(n % 10) + 1])

startswith(s, prefix) ==
    /\ Len(s) >= Len(prefix)
    /\ SubSeq(s, 1, Len(prefix)) = prefix

----------------------------------------------------------------------------
\* prometheus_client counters: a labelled Counter is a map from label tuples
\* to child values; labels() creates the child at 0 on first use, inc() adds 1.

\* Variant: a child is created anew on every use, losing what it counted.
labels_fresh(counter, l) == (l :> 0) @@ counter

labels(counter, l) ==
    IF l \in DOMAIN counter THEN counter ELSE (l :> 0) @@ counter

inc(counter, l) ==
    [labels(counter, l) EXCEPT ![l] = @ + 1]

\* The value of a series; a series never created has no sample, read as 0.
value(counter, l) == IF l \in DOMAIN counter THEN counter[l] ELSE 0

\* generate_latest(REGISTRY): one sample per created series of each counter
\* registered in REGISTRY.
generate_latest(rc, ec) ==
    { <<"http_requests_total", l, rc[l]>> : l \in DOMAIN rc }
    \cup { <<"http_errors_total", l, ec[l]>> : l \in DOMAIN ec }

----------------------------------------------------------------------------
\* Route handlers

\* Variant: the health check reports a degraded service.
healthz_degraded == Response(503, [status |-> "degraded"])

healthz == Response(200, [status |-> "ok"])

\* sum(f(i) for i in range(start, stop)) with f(i) = i * i
\* Variant: the range includes its stop value.
RECURSIVE sum_squares_inclusive(_, _)
sum_squares_inclusive(start, stop) ==
    IF start > stop THEN 0 ELSE start * start + sum_squares_inclusive(start + 1, stop)

RECURSIVE sum_squares(_, _)
sum_squares(start, stop) ==
    IF start >= stop THEN 0 ELSE start * start + sum_squares(start + 1, stop)

\* Variant: the failure response is built without status_code=500.
work_default_status(fail) ==
    IF fail
    THEN Response(200, [error |-> "intentional failure"])
    ELSE Response(200, [result |-> sum_squares(1, 101)])

work(fail) ==
    IF fail
    THEN Response(500, [error |-> "intentional failure"])
    ELSE Response(200, [result |-> sum_squares(1, 101)])

metrics(rc, ec) ==
    Response(200, [body |-> generate_latest(rc, ec),
                   media_type |-> "CONTENT_TYPE_LATEST"])

\* The routes declared with @app.get: path template -> endpoint.  No template
\* has a path parameter, so a template matches exactly the URL path equal to it.
Routes == {"/healthz", "/work", "/metrics"}

\* The declared route a request matches, "" when it matches none.
route_of(r) == IF r.path \in Routes /\ r.method = "GET" THEN r.path ELSE ""

\* Query parameter "fail: bool = False": the values the model sends are parsed
\* as booleans or rejected.
fail_valid(raw) == raw \in {"absent", "true", "false"}
fail_value(raw) == raw = "true"

\* What the application under the middleware answers to request r:
\* the router's 404 / 405, the validation error 422, or the endpoint's response.
app_response(r, rc, ec) ==
    IF r.path \notin Routes THEN Response(404, [detail |-> "Not Found"])
    ELSE IF r.method # "GET" THEN Response(405, [detail |-> "Method Not Allowed"])
    ELSE IF r.path = "/healthz" THEN healthz
    ELSE IF r.path = "/metrics" THEN metrics(rc, ec)
    ELSE IF ~fail_valid(r.fail) THEN Response(422, [detail |-> "bool_parsing"])
    ELSE work(fail_value(r.fail))

----------------------------------------------------------------------------
\* metrics_middleware, from the point where "await call_next(request)" has
\* produced `outcome` (a response, or a raised exception).  Returns the new
\* counters and what the middleware hands to its caller.

\* Variant: the path template of the matched route, "" when none matched.
url_route(r) == route_of(r)

\* request.url.path: the path of the URL as the client sent it
url_path(r) == r.path

\* (request.url.path, request.method, status): the label values of a series
series(r, status) == <<url_path(r), r.method, status>>

\* "except Exception": the clause catches Exception and its subclasses only
caught(exc) == exc \in Exception

\* status = "500" of the except clause
fault_status == <<"5", "0", "0">>

\* Variant: client errors are counted as errors too.
is_error_4xx_too(status) == startswith(status, <<"5">>) \/ startswith(status, <<"4">>)

\* status.startswith("5")
is_error(status) == startswith(status, <<"5">>)

\* Variant: the except clause counts the error and not the request.
count_fault_error_only(r, rc, ec) ==
    [REQUEST_COUNT |-> rc, ERROR_COUNT |-> inc(ec, series(r, fault_status))]

\* The except clause: ERROR_COUNT...inc() then REQUEST_COUNT...inc().  Both
\* run without an await between them.
count_fault(r, rc, ec) ==
    LET l == series(r, fault_status)
        ec1 == inc(ec, l)
        rc1 == inc(rc, l)
    IN  [REQUEST_COUNT |-> rc1, ERROR_COUNT |-> ec1]

\* Variant: the 5xx branch is missing.
count_response_no_errors(r, status, rc, ec) ==
    [REQUEST_COUNT |-> inc(rc, series(r, status)), ERROR_COUNT |-> ec]

\* After the try: REQUEST_COUNT...inc(), then ERROR_COUNT...inc() for a 5xx.
count_response(r, status, rc, ec) ==
    LET l == series(r, status)
        rc1 == inc(rc, l)
        ec1 == IF is_error(status) THEN inc(ec, l) ELSE ec
    IN  [REQUEST_COUNT |-> rc1, ERROR_COUNT |-> ec1]

\* Variant: a caught exception is answered with a response of the middleware's own.
handed_swallowed(outcome) ==
    IF outcome.kind = "raise"
    THEN Response(500, [detail |-> "Internal Server Error"])
    ELSE outcome

\* Variant: the response is rebuilt from its status code, without its content.
handed_rebuilt(outcome) ==
    IF outcome.kind = "response"
    THEN Response(outcome.status_code, NoContent)
    ELSE outcome

\* What the middleware hands to its caller: "return response", or "raise".
handed(outcome) == outcome

metrics_middleware(r, outcome, rc, ec) ==
    IF outcome.kind = "response" THEN
        LET c == count_response(r, str(outcome.status_code), rc, ec)
        IN  [REQUEST_COUNT |-> c.REQUEST_COUNT, ERROR_COUNT |-> c.ERROR_COUNT,
             out |-> handed(outcome)]
    ELSE IF caught(outcome.exc) THEN
        LET c == count_fault(r, rc, ec)
        IN  [REQUEST_COUNT |-> c.REQUEST_COUNT, ERROR_COUNT |-> c.ERROR_COUNT,
             out |-> handed(outcome)]
    ELSE
        \* not caught: the exception leaves the coroutine at the await
        [REQUEST_COUNT |-> rc, ERROR_COUNT |-> ec, out |-> outcome]

----------------------------------------------------------------------------
\* State machine

\* The bag `history` with one more occurrence of k.
Record(h, k) == IF k \in DOMAIN h THEN [h EXCEPT ![k] = @ + 1] ELSE (k :> 1) @@ h

Exchange(r, outcome) ==
    [path |-> r.path, method |-> r.method, kind |-> outcome.kind,
     status_code |-> outcome.status_code, exc |-> outcome.exc]

Init ==
    /\ REQUEST_COUNT = <<>>
    /\ ERROR_COUNT = <<>>
    /\ pc = [i \in Slots |-> "idle"]
    /\ request = [i \in Slots |-> NoRequest]
    /\ result = [i \in Slots |-> Nothing]
    /\ returned = [request |-> NoRequest, result |-> Nothing, out |-> Nothing]
    /\ history = <<>>
    /\ received = 0

\* A request arrives: the middleware starts and awaits call_next(request).
Receive(i, r) ==
    /\ pc[i] = "idle"
    /\ received < MaxRequests
    /\ received' = received + 1
    /\ pc' = [pc EXCEPT ![i] = "call_next"]
    /\ request' = [request EXCEPT ![i] = r]
    /\ UNCHANGED <<REQUEST_COUNT, ERROR_COUNT, result, returned, history>>

\* call_next returns the application's response.
CallNextReturns(i) ==
    /\ pc[i] = "call_next"
    /\ result' = [result EXCEPT ![i] = app_response(request[i], REQUEST_COUNT, ERROR_COUNT)]
    /\ pc' = [pc EXCEPT ![i] = "resume"]
    /\ UNCHANGED <<REQUEST_COUNT, ERROR_COUNT, request, returned, history, received>>

\* call_next raises: an exception escapes the stack below the middleware.
CallNextRaises(i, e) ==
    /\ pc[i] = "call_next"
    /\ result' = [result EXCEPT ![i] = Raised(e)]
    /\ pc' = [pc EXCEPT ![i] = "resume"]
    /\ UNCHANGED <<REQUEST_COUNT, ERROR_COUNT, request, returned, history, received>>

\* The middleware resumes after the await and runs to its return or raise;
\* the slot is free again.
Resume(i) ==
    /\ pc[i] = "resume"
    /\ LET m == metrics_middleware(request[i], result[i], REQUEST_COUNT, ERROR_COUNT)
       IN  /\ REQUEST_COUNT' = m.REQUEST_COUNT
           /\ ERROR_COUNT' = m.ERROR_COUNT
           /\ returned' = [request |-> request[i], result |-> result[i], out |-> m.out]
    /\ history' = Record(history, Exchange(request[i], result[i]))
    /\ pc' = [pc EXCEPT ![i] = "idle"]
    /\ request' = [request EXCEPT ![i] = NoRequest]
    /\ result' = [result EXCEPT ![i] = Nothing]
    /\ UNCHANGED received

Next ==
    \/ \E i \in Slots, r \in Requests : Receive(i, r)
    \/ \E i \in Slots : CallNextReturns(i)
    \/ \E i \in Slots, e \in BaseException : CallNextRaises(i, e)
    \/ \E i \in Slots : Resume(i)

Spec == Init /\ [][Next]_vars

TypeOK ==
    /\ received \in 0..MaxRequests
    /\ \A i \in Slots : pc[i] \in {"idle", "call_next", "resume"}

----------------------------------------------------------------------------
\* Vocabulary of the properties

\* int(s) for a string of decimal digits
DigitValue(c) == CHOOSE d \in 0..9 : Digits[d + 1] = c

RECURSIVE int(_)
int(s) == IF s = <<>> THEN 0
          ELSE 10 * int(SubSeq(s, 1, Len(s) - 1)) + DigitValue(s[Len(s)])

\* Every label tuple a series has, or a completed exchange could have
Labels ==
    DOMAIN REQUEST_COUNT \cup DOMAIN ERROR_COUNT
    \cup { <<k.path, k.method, str(IF k.kind = "response" THEN k.status_code ELSE 500)>> :
             k \in DOMAIN history }

\* The completed exchange k was a request observed with label tuple l: its
\* path and method are l's, and its outcome is the response status l names,
\* or an unhandled fault and l names 500.
Observed(k, l) ==
    /\ k.path = l[1]
    /\ k.method = l[2]
    /\ \/ k.kind = "response" /\ k.status_code = int(l[3])
       \/ k.kind = "raise" /\ k.exc \in Exception /\ int(l[3]) = 500

Is5xx(k) ==
    \/ k.kind = "response" /\ k.status_code \in 500..599
    \/ k.kind = "raise" /\ k.exc \in Exception

RECURSIVE Count(_, _)
Count(h, K) ==
    IF K = {} THEN 0
    ELSE LET k == CHOOSE x \in K : TRUE IN h[k] + Count(h, K \ {k})

\* Number of completed requests observed with l, and of those with a 5xx outcome
RequestsObserved(l) == Count(history, { k \in DOMAIN history : Observed(k, l) })
ErrorsObserved(l) ==
    Count(history, { k \in DOMAIN history : Observed(k, l) /\ Is5xx(k) })

\* The exposition that states exactly the observed counts
ExactExposition ==
    { <<"http_requests_total", l, RequestsObserved(l)>> :
        l \in { x \in Labels : RequestsObserved(x) > 0 } }
    \cup { <<"http_errors_total", l, ErrorsObserved(l)>> :
        l \in { x \in Labels : ErrorsObserved(x) > 0 } }

GetMetrics == [path |-> "/metrics", method |-> "GET", fail |-> "absent"]

AllIdle == \A i \in Slots : pc[i] = "idle"

\* Slot i takes the step in which the middleware resumes and finishes
Resumes(i) == pc[i] = "resume" /\ pc'[i] = "idle"

\* Slot i takes the step in which call_next returns the application's response
Returns(i) == pc[i] = "call_next" /\ pc'[i] = "resume" /\ result'[i].kind = "response"

----------------------------------------------------------------------------
\* C1: after any sequence of requests, what GET /metrics renders is, for every
\* (path, method, status), the exact number of requests observed with that
\* combination under http_requests_total and the exact number of those with
\* a 5xx outcome under http_errors_total: the registry renders so in every
\* state, and every response of the /metrics endpoint carries that rendering.
MetricsRendersExactCounts ==
    /\ [](generate_latest(REQUEST_COUNT, ERROR_COUNT) = ExactExposition)
    /\ [][\A i \in Slots :
            (Returns(i) /\ request[i] = GetMetrics)
                => result'[i].content.body = ExactExposition]_vars

\* A /metrics response was returned that showed a request series and an error
\* series, while the registry has since counted more.
MetricsRendersExactCountsWitness ==
    /\ returned.request = GetMetrics
    /\ returned.out.kind = "response"
    /\ \E x \in returned.out.content.body : x[1] = "http_errors_total" /\ x[3] >= 1
    /\ \E x \in returned.out.content.body : x[1] = "http_requests_total" /\ x[3] >= 1
    /\ \E l \in DOMAIN REQUEST_COUNT : REQUEST_COUNT[l] >= 2

\* C3: when all N requests received so far were observed with one and the same
\* (path, method, status) and all have completed, however their steps
\* interleaved, the http_requests_total series of that combination reads N.
NoLostUpdates ==
    \A l \in Labels :
        (AllIdle /\ \A k \in DOMAIN history : Observed(k, l))
            => value(REQUEST_COUNT, l) = received

\* All requests received, at least two, were GET /metrics and have completed,
\* the one that completed last having rendered the registry before any of them
\* was counted: they overlapped.
NoLostUpdatesWitness ==
    /\ AllIdle
    /\ received >= 2
    /\ returned.request = GetMetrics
    /\ returned.out.kind = "response"
    /\ returned.out.content.body = {}
    /\ \E l \in DOMAIN REQUEST_COUNT :
        /\ REQUEST_COUNT[l] = received
        /\ \A k \in DOMAIN history : Observed(k, l)

\* C10: in every state, for every label tuple, http_errors_total is at most
\* http_requests_total.
ErrorsAtMostRequests ==
    \A l \in Labels : value(ERROR_COUNT, l) <= value(REQUEST_COUNT, l)

\* Some series has errors equal to requests, another has requests and no
\* errors, and a request is in flight between its steps.
ErrorsAtMostRequestsWitness ==
    /\ \E l \in DOMAIN ERROR_COUNT : ERROR_COUNT[l] = REQUEST_COUNT[l]
    /\ \E l \in DOMAIN REQUEST_COUNT : l \notin DOMAIN ERROR_COUNT
    /\ \E i \in Slots : pc[i] = "resume" /\ result[i].kind = "raise"

\* C2: when call_next raises an unhandled fault, the middleware adds exactly 1
\* to http_errors_total and to http_requests_total of (path, method, "500")
\* in the step in which it hands on the fault, and what it hands to its
\* caller is that same fault raised, never a response.
FaultCountedOnceAndReraised ==
    [][\A i \in Slots :
        (Resumes(i) /\ result[i].kind = "raise" /\ result[i].exc \in Exception) =>
            LET l == <<request[i].path, request[i].method, <<"5", "0", "0">>>>
                e0 == value(ERROR_COUNT, l)
                r0 == value(REQUEST_COUNT, l)
            IN  /\ l \in DOMAIN ERROR_COUNT' /\ ERROR_COUNT'[l] = e0 + 1
                /\ l \in DOMAIN REQUEST_COUNT' /\ REQUEST_COUNT'[l] = r0 + 1
                /\ returned'.request = request[i]
                /\ returned'.out.kind = "raise"
                /\ returned'.out = Raised(result[i].exc)]_vars

\* The middleware has re-raised a fault of GET /healthz and both 500 series of
\* that request read 1.
FaultCountedOnceAndReraisedWitness ==
    /\ returned.request.path = "/healthz"
    /\ returned.out.kind = "raise"
    /\ returned.out.exc \in Exception
    /\ value(ERROR_COUNT, <<"/healthz", "GET", <<"5", "0", "0">>>>) = 1
    /\ value(REQUEST_COUNT, <<"/healthz", "GET", <<"5", "0", "0">>>>) = 1

GetWorkFail == [path |-> "/work", method |-> "GET", fail |-> "true"]
FailureResponse == Response(500, [error |-> "intentional failure"])
WorkGet500 == <<"/work", "GET", <<"5", "0", "0">>>>

\* C4: the application answers every GET /work?fail=true with status 500 and
\* the error body, as a response and not a fault; the middleware returns that
\* response and adds exactly 1 to http_requests_total{/work,GET,500} and to
\* http_errors_total{/work,GET,500}.
WorkFailCountedAs500 ==
    [][\A i \in Slots : request[i] = GetWorkFail =>
        /\ Returns(i) => result'[i] = FailureResponse
        /\ (Resumes(i) /\ result[i].kind = "response") =>
            /\ returned'.out = FailureResponse
            /\ value(REQUEST_COUNT', WorkGet500) = value(REQUEST_COUNT, WorkGet500) + 1
            /\ value(ERROR_COUNT', WorkGet500) = value(ERROR_COUNT, WorkGet500) + 1]_vars

\* GET /work?fail=true was answered with the failure response, twice.
WorkFailCountedAs500Witness ==
    /\ returned.request = GetWorkFail
    /\ returned.out = FailureResponse
    /\ value(REQUEST_COUNT, WorkGet500) = 2
    /\ value(ERROR_COUNT, WorkGet500) = 2

WorkOkRequests ==
    { [path |-> "/work", method |-> "GET", fail |-> f] : f \in {"absent", "false"} }
ResultResponse == Response(200, [result |-> 338350])

\* C5: every GET /work without fail, or with fail=false, is answered with
\* status 200 and result 338350, whatever requests preceded it: the
\* application's response is that one, and so is what the middleware returns.
WorkOkReturns338350 ==
    /\ \A i \in Slots :
        (request[i] \in WorkOkRequests /\ result[i].kind = "response")
            => result[i] = ResultResponse
    /\ (returned.request \in WorkOkRequests /\ returned.result.kind = "response")
            => returned.out = ResultResponse

\* GET /work?fail=false was answered with the result after a failing request
\* had been counted, while a GET /work without fail has its answer pending.
WorkOkReturns338350Witness ==
    /\ returned.request.fail = "false"
    /\ returned.out = ResultResponse
    /\ value(ERROR_COUNT, WorkGet500) >= 1
    /\ \E i \in Slots : pc[i] = "resume" /\ request[i].path = "/work"
                        /\ request[i].fail = "absent" /\ result[i] = ResultResponse

GetHealthz == [path |-> "/healthz", method |-> "GET", fail |-> "absent"]
OkResponse == Response(200, [status |-> "ok"])

\* C6: GET /healthz is answered with status 200 and body status "ok" in every
\* reachable state, whatever requests preceded it.
HealthzAlwaysOk ==
    /\ \A i \in Slots :
        (request[i] = GetHealthz /\ result[i].kind = "response") => result[i] = OkResponse
    /\ (returned.request = GetHealthz /\ returned.result.kind = "response")
            => returned.out = OkResponse

\* GET /healthz was answered ok as the last of the requests, after errors
\* had been counted.
HealthzAlwaysOkWitness ==
    /\ returned.request = GetHealthz
    /\ returned.out = OkResponse
    /\ received = MaxRequests
    /\ DOMAIN ERROR_COUNT # {}

\* C7: when call_next returned a response, the middleware adds 1 to
\* http_requests_total of (path, method, status) in every case, and adds 1 to
\* http_errors_total of the same series if and only if the status code is in
\* 500..599; otherwise it leaves http_errors_total as it is.
ErrorCountedIff5xx ==
    [][\A i \in Slots :
        (Resumes(i) /\ result[i].kind = "response") =>
            LET code == result[i].status_code
                l == <<request[i].path, request[i].method, str(code)>>
            IN  /\ value(REQUEST_COUNT', l) = value(REQUEST_COUNT, l) + 1
                /\ code \in 500..599 => value(ERROR_COUNT', l) = value(ERROR_COUNT, l) + 1
                /\ code \notin 500..599 => ERROR_COUNT' = ERROR_COUNT]_vars

\* Responses with a 5xx, a 4xx and a 2xx status have been counted; only the
\* 5xx one has an error series.
ErrorCountedIff5xxWitness ==
    /\ returned.out.kind = "response"
    /\ \E l \in DOMAIN REQUEST_COUNT : int(l[3]) \in 500..599 /\ l \in DOMAIN ERROR_COUNT
    /\ \E l \in DOMAIN REQUEST_COUNT : int(l[3]) \in 400..499 /\ l \notin DOMAIN ERROR_COUNT
    /\ \E l \in DOMAIN REQUEST_COUNT : int(l[3]) \in 200..299 /\ l \notin DOMAIN ERROR_COUNT

\* The series a step has changed
Changed ==
    { l \in DOMAIN REQUEST_COUNT' : value(REQUEST_COUNT, l) # REQUEST_COUNT'[l] }
    \cup { l \in DOMAIN ERROR_COUNT' : value(ERROR_COUNT, l) # ERROR_COUNT'[l] }

\* C8 as stated: the path label of every series is a declared route path.
PathLabelIsDeclaredRoute ==
    \A l \in DOMAIN REQUEST_COUNT \cup DOMAIN ERROR_COUNT : l[1] \in Routes

\* C8 as amended: the path label the middleware writes is the request's URL
\* path and the method label its method; for a request that matches a declared
\* route that is the route's path, so that two requests matching the same
\* route write the same path and method labels.
PathLabelIsUrlPath ==
    [][\A i \in Slots : Resumes(i) =>
        \A l \in Changed :
            /\ l[1] = request[i].path
            /\ l[2] = request[i].method
            /\ route_of(request[i]) # "" => l[1] = route_of(request[i])]_vars

\* A series exists for a path that is no declared route, and another for a
\* declared route that requests with and without a query string have both
\* incremented.
PathLabelIsUrlPathWitness ==
    /\ \E l \in DOMAIN REQUEST_COUNT : l[1] \notin Routes
    /\ \E l \in DOMAIN REQUEST_COUNT : l[1] = "/work" /\ REQUEST_COUNT[l] = 2
    /\ \E k \in DOMAIN history : k.path = "/work" /\ k.kind = "response"
                                 /\ k.status_code = 200 /\ history[k] = 2
    /\ returned.request.fail = "false"

\* The label tuple l is the one of slot i's request and outcome
Own(i, l) ==
    /\ l[1] = request[i].path
    /\ l[2] = request[i].method
    /\ int(l[3]) = IF result[i].kind = "response" THEN result[i].status_code ELSE 500

\* C9: handling a request changes no series but those of its own (path, method,
\* status): the steps before the middleware resumes change no counter, and the
\* step in which it resumes leaves every other series of both counters as it
\* was, leaves http_errors_total as it was for an outcome that is not 5xx,
\* leaves the other requests in flight alone, and returns the response
\* call_next returned, unchanged.
OnlyOwnSeriesChanges ==
    [][/\ (\A i \in Slots : ~Resumes(i)) => UNCHANGED <<REQUEST_COUNT, ERROR_COUNT, returned>>
       /\ \A i \in Slots : Resumes(i) =>
            /\ \A l \in Changed : Own(i, l)
            /\ DOMAIN REQUEST_COUNT \subseteq DOMAIN REQUEST_COUNT'
            /\ DOMAIN ERROR_COUNT \subseteq DOMAIN ERROR_COUNT'
            /\ (result[i].kind = "response" /\ result[i].status_code \notin 500..599)
                    => ERROR_COUNT' = ERROR_COUNT
            /\ result[i].kind = "response" => returned'.out = result[i]
            /\ \A j \in Slots \ {i} :
                    pc'[j] = pc[j] /\ request'[j] = request[j] /\ result'[j] = result[j]]_vars

\* A 200 response with a body was returned while series of other label tuples
\* exist in both counters and another request is in flight.
OnlyOwnSeriesChangesWitness ==
    /\ returned.request = GetMetrics
    /\ returned.out.kind = "response"
    /\ returned.out.content.body # {}
    /\ DOMAIN ERROR_COUNT # {}
    /\ Cardinality(DOMAIN REQUEST_COUNT) >= 2
    /\ \E i \in Slots : pc[i] = "resume"

====
